---- MODULE Spec2Model ----
(***************************************************************************)
(* Model of platform/quard_star/platform.c (OpenSBI platform glue of the   *)
(* Quard-Star board): the one-time population of the platform descriptor   *)
(* and of the hart table from the device tree (fw_platform_init), and the  *)
(* lifecycle hooks reachable through platform_ops.                         *)
(*                                                                         *)
(* fw_platform_init is modelled statement by statement (pc), so that the   *)
(* states during the call are visible; every lifecycle hook is one action  *)
(* covering the whole handler.  Collaborators that live outside            *)
(* platform.c (libfdt, the fdt_* helpers, the drivers) are environment:    *)
(* their results are inputs drawn from small sets and every call is        *)
(* recorded in last_calls.                                                 *)
(***************************************************************************)
EXTENDS Integers, Sequences, FiniteSets

VARIABLES
    fdt,                    \* the device tree handed in by the previous stage
    arg1,                   \* boot-time A1: address of that tree
    pc,                     \* position of the boot hart in fw_platform_init
    cpu_offset,             \* fdt_for_each_subnode cursor: index of the next child
    hart_count,             \* local u32 hart_count
    platform_name,          \* platform.name, char[NAME_SIZE]
    name_stores,            \* number of bytes stored into platform.name so far
    platform_hart_count,    \* platform.hart_count
    generic_hart_index2id,  \* the hart table
    oob_stores,             \* stores made past the end of the hart table
    fw_ret,                 \* <<>> until fw_platform_init returns, then <<value>>
    wfi_count,              \* wfi() instructions executed in the halt loop
    last_hook,              \* the most recent lifecycle hook call
    last_calls,             \* collaborator calls made by that hook call, in order
    ret,                    \* what that hook call returned (<<>> for void)
    n_calls,                \* number of hook calls so far
    reset_inits,            \* fdt_reset_init() calls over the boot
    fixup_log,              \* fixups applied to the tree over the boot, in order
    cold_early,             \* early_init(true) calls over the boot
    cold_final,             \* final_init(true) calls over the boot
    fw_calls,               \* fw_platform_init calls that have returned
    first_result,           \* <<>> until the first return, then what it left
    phase_log,              \* hooks the boot sequence has called, with results
    cold_hart,              \* the hart the boot protocol passes cold_boot = true
    hart_pc,                \* per hart: the hook it is in and its position there
    hart_log                \* collaborator calls made by the harts, in order

popvars == <<fdt, arg1, pc, cpu_offset, hart_count, platform_name, name_stores,
             platform_hart_count, generic_hart_index2id, oob_stores, fw_ret,
             wfi_count>>
hookvars == <<last_hook, last_calls, ret, n_calls, reset_inits, fixup_log,
              cold_early, cold_final>>
fwvars == <<fw_calls, first_result>>
orchvars == <<phase_log>>
hartvars == <<cold_hart, hart_pc, hart_log>>
vars == <<fdt, arg1, pc, cpu_offset, hart_count, platform_name, name_stores,
          platform_hart_count, generic_hart_index2id, oob_stores, fw_ret,
          wfi_count, last_hook, last_calls, ret, n_calls, reset_inits,
          fixup_log, cold_early, cold_final, fw_calls, first_result,
          phase_log, cold_hart, hart_pc, hart_log>>

----------------------------------------------------------------------------
(* Program constants.  SBI_HARTMASK_MAX_BITS is 128 in sbi_hartmask.h and   *)
(* is scaled down here so that trees with more surviving cpu nodes than     *)
(* table entries stay enumerable; NAME_SIZE is sizeof(platform.name).       *)

SBI_HARTMASK_MAX_BITS == 3

NAME_SIZE == 64

\* "Quard-Star"
DefaultName == <<81, 117, 97, 114, 100, 45, 83, 116, 97, 114>>

\* struct sbi_platform platform = { .name = "Quard-Star", ... }: the rest of
\* the array is zero-initialised.
InitialName ==
    [i \in 0..(NAME_SIZE - 1) |->
        IF i < Len(DefaultName) THEN DefaultName[i + 1] ELSE 0]

\* static u32 generic_hart_index2id[SBI_HARTMASK_MAX_BITS] = { 0 };
InitialTable == [i \in 0..(SBI_HARTMASK_MAX_BITS - 1) |-> 0]

\* .hart_count = SBI_HARTMASK_MAX_BITS
InitialHartCount == SBI_HARTMASK_MAX_BITS

----------------------------------------------------------------------------
(* Bounds of the input space.                                               *)

MaxChildren == 4

MaxWfi == 2

MaxCalls == 3

\* Calls of fw_platform_init that are followed through.
MaxFwCalls == 2

\* Harts that run the hooks side by side.
NumHarts == 3

Harts == 0..(NumHarts - 1)

\* A hart that has not called a hook yet.  at: where the hart is; out: what
\* the handler it is in does; idx: how many of the handler's collaborator
\* calls it has made; values: what its hook calls have returned so far.
HartAtBoot == [at |-> "boot", out |-> [calls |-> <<>>, value |-> <<>>],
               idx |-> 0, values |-> <<>>]

\* Hart identifiers a cpu node may carry: every in-range value and the
\* first out-of-range one.
HartIds == 0..SBI_HARTMASK_MAX_BITS

\* A child of /cpus, as the three queries of the loop see it.
CpuNodes ==
    {[parse_ok |-> FALSE, hartid |-> 0, enabled |-> TRUE]}
    \cup {[parse_ok |-> TRUE, hartid |-> h, enabled |-> e] :
            h \in HartIds, e \in BOOLEAN}

RECURSIVE SeqsUpTo(_, _)
SeqsUpTo(S, n) ==
    IF n = 0 THEN {<<>>}
    ELSE LET shorter == SeqsUpTo(S, n - 1)
         IN  shorter \cup {Append(s, x) : s \in {t \in shorter : Len(t) = n - 1}, x \in S}

\* A string of n copies of 'X' (a model property value, without its NUL).
XString(n) == [i \in 1..n |-> 88]

\* Lengths of the model property that are tried: empty, shorter than the
\* default name, and around the capacity of platform.name.
ModelLens == {0, 3, NAME_SIZE - 2, NAME_SIZE - 1, NAME_SIZE, NAME_SIZE + 1}

\* The model property: <<>> when absent, else <<string>>.
Models == {<<>>} \cup {<<XString(n)>> : n \in ModelLens}

FdtAddrs == {4096, 8192}

\* A tree without a root node (fdt_path_offset(fdt, "/") fails); nothing
\* else of it can be looked up.
NoRootTree == [has_root |-> FALSE, model |-> <<>>, has_cpus |-> FALSE, cpus |-> <<>>]

\* A tree with a root but no /cpus node.
NoCpusTree(m) == [has_root |-> TRUE, model |-> m, has_cpus |-> FALSE, cpus |-> <<>>]

FullTree(m, cs) == [has_root |-> TRUE, model |-> m, has_cpus |-> TRUE, cpus |-> cs]

EnabledNode(h) == [parse_ok |-> TRUE, hartid |-> h, enabled |-> TRUE]

DisabledNode(h) == [parse_ok |-> TRUE, hartid |-> h, enabled |-> FALSE]

\* Every model property (and its absence) is tried against a few /cpus
\* contents, and every /cpus content of up to MaxChildren children against
\* one short model property.
FewCpuLists == {<<>>, <<EnabledNode(0), DisabledNode(1), EnabledNode(2)>>}

FewModels == {<<XString(3)>>}

Trees ==
    {NoRootTree}
    \cup {NoCpusTree(m) : m \in Models}
    \cup {FullTree(m, cs) : m \in Models, cs \in FewCpuLists}
    \cup {FullTree(m, cs) : m \in FewModels, cs \in SeqsUpTo(CpuNodes, MaxChildren)}

----------------------------------------------------------------------------
(* Collaborators of fw_platform_init, as functions of the tree.             *)

\* fdt_path_offset(fdt, "/") >= 0
RootFound(t) == t.has_root

\* fdt_path_offset(fdt, "/cpus") >= 0
CpusFound(t) == t.has_cpus

\* fdt_parse_hart_id(fdt, cpu_offset, &hartid) == 0
ParseOk(node) == node.parse_ok

\* fdt_node_is_enabled(fdt, cpu_offset)
NodeEnabled(node) == node.enabled

\* sbi_strncpy(dest, src, count): copies the bytes of src up to and including
\* its terminating NUL, and never more than count bytes: bytes 0..stored-1 of
\* dest are stored, the others are left as they were.  Returns the new
\* contents of dest and the number of bytes stored.  A store whose index is
\* not in dest does not land in dest.
StrncpyStored(src, count) ==
    IF Len(src) + 1 <= count THEN Len(src) + 1 ELSE count

sbi_strncpy(dest, src, count) ==
    LET n == StrncpyStored(src, count)
    IN  [dest |-> [i \in DOMAIN dest |->
                     IF i < n THEN (IF i < Len(src) THEN src[i + 1] ELSE 0)
                     ELSE dest[i]],
         stored |-> n]

----------------------------------------------------------------------------
(* fw_platform_init                                                         *)

Init ==
    /\ fdt \in Trees
    /\ arg1 = 4096
    /\ pc = "start"
    /\ cpu_offset = 0
    /\ hart_count = 0
    /\ platform_name = InitialName
    /\ name_stores = 0
    /\ platform_hart_count = InitialHartCount
    /\ generic_hart_index2id = InitialTable
    /\ oob_stores = <<>>
    /\ fw_ret = <<>>
    /\ wfi_count = 0
    /\ last_hook = <<>>
    /\ last_calls = <<>>
    /\ ret = <<>>
    /\ n_calls = 0
    /\ reset_inits = 0
    /\ fixup_log = <<>>
    /\ cold_early = 0
    /\ cold_final = 0
    /\ fw_calls = 0
    /\ first_result = <<>>
    /\ phase_log = <<>>
    /\ cold_hart = 0
    /\ hart_pc = [h \in Harts |-> HartAtBoot]
    /\ hart_log = <<>>

\* root_offset = fdt_path_offset(fdt, "/"); if (root_offset < 0) goto fail;
FindRoot ==
    /\ pc = "start"
    /\ pc' = IF RootFound(fdt) THEN "model" ELSE "fail"
    /\ UNCHANGED <<fdt, arg1, cpu_offset, hart_count, platform_name, name_stores,
                   platform_hart_count, generic_hart_index2id, oob_stores,
                   fw_ret, wfi_count>>
    /\ UNCHANGED <<hookvars, fwvars, orchvars, hartvars>>

\* Variant of NameCopyCount that does not reserve the last byte.
NameCopyCountNoReserve == NAME_SIZE

\* The count passed to sbi_strncpy: sizeof(platform.name) - 1.

NameCopyCount == NAME_SIZE - 1

\* Variant of CopyModel that does not copy the model before /cpus is looked
\* up.
CopyModelNotYet ==
    /\ pc = "model"
    /\ pc' = "cpus"
    /\ UNCHANGED <<fdt, arg1, cpu_offset, hart_count, platform_name, name_stores,
                   platform_hart_count, generic_hart_index2id, oob_stores,
                   fw_ret, wfi_count>>
    /\ UNCHANGED <<hookvars, fwvars, orchvars, hartvars>>

\* model = fdt_getprop(fdt, root_offset, "model", &len);
\* if (model) sbi_strncpy(platform.name, model, sizeof(platform.name) - 1);
CopyModel ==
    /\ pc = "model"
    /\ IF fdt.model # <<>>
          THEN LET r == sbi_strncpy(platform_name, fdt.model[1], NameCopyCount)
               IN  /\ platform_name' = r.dest
                   /\ name_stores' = r.stored
          ELSE UNCHANGED <<platform_name, name_stores>>
    /\ pc' = "cpus"
    /\ UNCHANGED <<fdt, arg1, cpu_offset, hart_count, platform_hart_count,
                   generic_hart_index2id, oob_stores, fw_ret, wfi_count>>
    /\ UNCHANGED <<hookvars, fwvars, orchvars, hartvars>>

\* Variant of FindCpus that does not test cpus_offset: a missing /cpus then
\* has no subnodes to iterate.
FindCpusUnchecked ==
    /\ pc = "cpus"
    /\ pc' = "loop"
    /\ cpu_offset' = 1
    /\ UNCHANGED <<fdt, arg1, hart_count, platform_name, name_stores,
                   platform_hart_count, generic_hart_index2id, oob_stores,
                   fw_ret, wfi_count>>
    /\ UNCHANGED <<hookvars, fwvars, orchvars, hartvars>>

\* cpus_offset = fdt_path_offset(fdt, "/cpus"); if (cpus_offset < 0) goto fail;
\* then fdt_first_subnode positions the cursor on the first child.
FindCpus ==
    /\ pc = "cpus"
    /\ IF CpusFound(fdt)
          THEN pc' = "loop" /\ cpu_offset' = 1
          ELSE pc' = "fail" /\ UNCHANGED cpu_offset
    /\ UNCHANGED <<fdt, arg1, hart_count, platform_name, name_stores,
                   platform_hart_count, generic_hart_index2id, oob_stores,
                   fw_ret, wfi_count>>
    /\ UNCHANGED <<hookvars, fwvars, orchvars, hartvars>>

\* The part of the state the loop body works on.
LoopState(count, table, oob) == [count |-> count, table |-> table, oob |-> oob]

\* Variant of StoreHart that files the identifier under its own value
\* instead of the next free logical index.
StoreHartById(st, hartid) ==
    LoopState(st.count + 1, [st.table EXCEPT ![hartid] = hartid], st.oob)

\* Variant of StoreHart that increments before it stores
\* (generic_hart_index2id[++hart_count]).
StoreHartPreIncrement(st, hartid) ==
    IF st.count + 1 \in DOMAIN st.table
      THEN LoopState(st.count + 1, [st.table EXCEPT ![st.count + 1] = hartid], st.oob)
      ELSE LoopState(st.count + 1, st.table,
                     Append(st.oob, [index |-> st.count + 1, value |-> hartid]))

\* generic_hart_index2id[hart_count++] = hartid;
\* The table has SBI_HARTMASK_MAX_BITS entries and the index is not checked:
\* a store at an index past the end does not land in the table but in the
\* memory that follows it (.bss), which is recorded in oob.
StoreHart(st, hartid) ==
    IF st.count \in DOMAIN st.table
      THEN LoopState(st.count + 1, [st.table EXCEPT ![st.count] = hartid], st.oob)
      ELSE LoopState(st.count + 1, st.table,
                     Append(st.oob, [index |-> st.count, value |-> hartid]))

\* Variant of HartIdInRange with the comparison off by one.
HartIdInRangeOffByOne(hartid) == ~(SBI_HARTMASK_MAX_BITS < hartid)

\* if (SBI_HARTMASK_MAX_BITS <= hartid) continue;
HartIdInRange(hartid) == ~(SBI_HARTMASK_MAX_BITS <= hartid)

\* Variant of LoopBody without the fdt_node_is_enabled test.
LoopBodyNoEnabledTest(st, node) ==
    IF ~ParseOk(node) THEN st
    ELSE IF ~HartIdInRange(node.hartid) THEN st
    ELSE StoreHart(st, node.hartid)

\* Variant of LoopBody that skips a node whose identifier the table already
\* holds.
LoopBodyDeduplicating(st, node) ==
    IF ~ParseOk(node) THEN st
    ELSE IF ~HartIdInRange(node.hartid) THEN st
    ELSE IF ~NodeEnabled(node) THEN st
    ELSE IF \E i \in DOMAIN st.table : i < st.count /\ st.table[i] = node.hartid
      THEN st
    ELSE StoreHart(st, node.hartid)

\* One pass through the body of fdt_for_each_subnode.
LoopBody(st, node) ==
    IF ~ParseOk(node) THEN st
    ELSE IF ~HartIdInRange(node.hartid) THEN st
    ELSE IF ~NodeEnabled(node) THEN st
    ELSE StoreHart(st, node.hartid)

\* The whole traversal: the loop body applied to the children in document
\* order.
RECURSIVE RunLoop(_, _)
RunLoop(st, children) ==
    IF children = <<>> THEN st
    ELSE RunLoop(LoopBody(st, Head(children)), Tail(children))

\* Variant of CpuLoop that gives up on a node whose hart id cannot be parsed.
CpuLoopParseFailureFatal ==
    /\ pc = "loop"
    /\ cpu_offset <= Len(fdt.cpus)
    /\ IF ParseOk(fdt.cpus[cpu_offset])
          THEN LET st == LoopBody(LoopState(hart_count, generic_hart_index2id, oob_stores),
                                  fdt.cpus[cpu_offset])
               IN  /\ hart_count' = st.count
                   /\ generic_hart_index2id' = st.table
                   /\ oob_stores' = st.oob
                   /\ cpu_offset' = cpu_offset + 1
                   /\ pc' = pc
          ELSE /\ pc' = "fail"
               /\ UNCHANGED <<hart_count, generic_hart_index2id, oob_stores, cpu_offset>>
    /\ UNCHANGED <<fdt, arg1, platform_name, name_stores, platform_hart_count,
                   fw_ret, wfi_count>>
    /\ UNCHANGED <<hookvars, fwvars, orchvars, hartvars>>

CpuLoop ==
    /\ pc = "loop"
    /\ cpu_offset <= Len(fdt.cpus)
    /\ LET st == LoopBody(LoopState(hart_count, generic_hart_index2id, oob_stores),
                          fdt.cpus[cpu_offset])
       IN  /\ hart_count' = st.count
           /\ generic_hart_index2id' = st.table
           /\ oob_stores' = st.oob
    /\ cpu_offset' = cpu_offset + 1
    /\ UNCHANGED <<fdt, arg1, pc, platform_name, name_stores, platform_hart_count,
                   fw_ret, wfi_count>>
    /\ UNCHANGED <<hookvars, fwvars, orchvars, hartvars>>

\* Variant of ReturnValue that hands on the lowest address a tree can have
\* (a tree at a fixed place) instead of the one passed in.
ReturnValueFixedTree == CHOOSE a \in FdtAddrs : \A b \in FdtAddrs : a <= b

\* The value fw_platform_init returns.
ReturnValue == arg1

\* platform.hart_count = hart_count; return arg1;
SetCountAndReturn ==
    /\ pc = "loop"
    /\ cpu_offset > Len(fdt.cpus)
    /\ platform_hart_count' = hart_count
    /\ fw_ret' = <<ReturnValue>>
    /\ pc' = "done"
    /\ fw_calls' = fw_calls + 1
    /\ first_result' = IF first_result = <<>>
                          THEN <<[count |-> hart_count,
                                  table |-> generic_hart_index2id,
                                  name |-> platform_name]>>
                          ELSE first_result
    /\ UNCHANGED <<fdt, arg1, cpu_offset, hart_count, platform_name, name_stores,
                   generic_hart_index2id, oob_stores, wfi_count>>
    /\ UNCHANGED <<hookvars, orchvars, hartvars>>

\* fail: while (1) wfi();
Halt ==
    /\ pc = "fail"
    /\ wfi_count' = IF wfi_count < MaxWfi THEN wfi_count + 1 ELSE wfi_count
    /\ UNCHANGED <<fdt, arg1, pc, cpu_offset, hart_count, platform_name, name_stores,
                   platform_hart_count, generic_hart_index2id, oob_stores, fw_ret>>
    /\ UNCHANGED <<hookvars, fwvars, orchvars, hartvars>>

\* Variant of EntryHartCount for a counter that outlives the call (a static).
EntryHartCountKept == hart_count

\* u32 hartid, hart_count = 0;
EntryHartCount == 0

\* A further call of fw_platform_init on the same tree, after the previous
\* one has returned: the locals are fresh, the globals are as they were left.
FwEnterAgain ==
    /\ pc = "done"
    /\ fw_calls < MaxFwCalls
    /\ pc' = "start"
    /\ hart_count' = EntryHartCount
    /\ cpu_offset' = 0
    /\ fw_ret' = <<>>
    /\ UNCHANGED <<fdt, arg1, platform_name, name_stores, platform_hart_count,
                   generic_hart_index2id, oob_stores, wfi_count>>
    /\ UNCHANGED <<hookvars, fwvars, orchvars, hartvars>>

Next ==
    \/ FindRoot
    \/ CopyModel
    \/ FindCpus
    \/ CpuLoop
    \/ SetCountAndReturn
    \/ Halt

Spec == Init /\ [][Next]_vars

\* Repeated calls of fw_platform_init are followed on the trees whose cpu
\* nodes are of these kinds.
AgainNodes ==
    {EnabledNode(0), EnabledNode(1), DisabledNode(2),
     EnabledNode(SBI_HARTMASK_MAX_BITS),
     [parse_ok |-> FALSE, hartid |-> 0, enabled |-> TRUE]}

InitAgain ==
    /\ Init
    /\ \A i \in 1..Len(fdt.cpus) : fdt.cpus[i] \in AgainNodes

NextAgain ==
    \/ FindRoot
    \/ CopyModel
    \/ FindCpus
    \/ CpuLoop
    \/ SetCountAndReturn
    \/ Halt
    \/ FwEnterAgain

SpecAgain == InitAgain /\ [][NextAgain]_vars

\* The boot hart keeps executing: it is not stopped between two statements
\* of fw_platform_init.  Followed on the trees of InitAgain, whose cpu nodes
\* cover the three ways a node is rejected.
SpecFair == InitAgain /\ [][Next]_vars /\ WF_vars(Next)

----------------------------------------------------------------------------
(* Lifecycle hooks.  The boot-protocol layer calls them through            *)
(* platform_ops once fw_platform_init has returned.                        *)

\* Results a collaborator may report: success and two failures.
Results == {0, -1, -3}

\* bool as the C code sees it.
CBool == {0, 1}

\* One collaborator call: the function, the arguments it was given and the
\* value it returned (<<>> for none).
Call(fn, args, res) == [fn |-> fn, args |-> args, res |-> res]

\* What a handler did: the collaborator calls it made, in order, and the
\* value it returned (<<>> for a void handler).
Outcome(calls, value) == [calls |-> calls, value |-> value]

\* Variant of quard_star_early_init without the cold_boot test.
quard_star_early_init_ungated(cold_boot) ==
    Outcome(<<Call("fdt_reset_init", <<>>, <<>>)>>, <<0>>)

\* static int quard_star_early_init(bool cold_boot)
quard_star_early_init(cold_boot) ==
    IF cold_boot = 0 THEN Outcome(<<>>, <<0>>)
    ELSE Outcome(<<Call("fdt_reset_init", <<>>, <<>>)>>, <<0>>)

\* Variant of quard_star_final_init that runs the generic fixups first.
quard_star_final_init_reordered(cold_boot, scratch_arg1) ==
    IF cold_boot = 0 THEN Outcome(<<>>, <<0>>)
    ELSE Outcome(<<Call("sbi_scratch_thishart_arg1_ptr", <<>>, <<scratch_arg1>>),
                   Call("fdt_fixups", <<scratch_arg1>>, <<>>),
                   Call("fdt_cpu_fixup", <<scratch_arg1>>, <<>>),
                   Call("fdt_domain_fixup", <<scratch_arg1>>, <<>>)>>,
                 <<0>>)

\* Variant of quard_star_final_init that treats the hart-topology fixup as
\* failed: it gives up after it and reports the failure.
quard_star_final_init_giving_up(cold_boot, scratch_arg1) ==
    IF cold_boot = 0 THEN Outcome(<<>>, <<0>>)
    ELSE Outcome(<<Call("sbi_scratch_thishart_arg1_ptr", <<>>, <<scratch_arg1>>),
                   Call("fdt_cpu_fixup", <<scratch_arg1>>, <<>>)>>,
                 <<-1>>)

\* Variant of quard_star_final_init without the cold_boot test.
quard_star_final_init_ungated(cold_boot, scratch_arg1) ==
    Outcome(<<Call("sbi_scratch_thishart_arg1_ptr", <<>>, <<scratch_arg1>>),
              Call("fdt_cpu_fixup", <<scratch_arg1>>, <<>>),
              Call("fdt_fixups", <<scratch_arg1>>, <<>>),
              Call("fdt_domain_fixup", <<scratch_arg1>>, <<>>)>>,
            <<0>>)

\* static int quard_star_final_init(bool cold_boot); scratch_arg1 is what
\* sbi_scratch_thishart_arg1_ptr() returns.
quard_star_final_init(cold_boot, scratch_arg1) ==
    IF cold_boot = 0 THEN Outcome(<<>>, <<0>>)
    ELSE Outcome(<<Call("sbi_scratch_thishart_arg1_ptr", <<>>, <<scratch_arg1>>),
                   Call("fdt_cpu_fixup", <<scratch_arg1>>, <<>>),
                   Call("fdt_fixups", <<scratch_arg1>>, <<>>),
                   Call("fdt_domain_fixup", <<scratch_arg1>>, <<>>)>>,
                 <<0>>)

\* static void quard_star_early_exit(void) {}
quard_star_early_exit == Outcome(<<>>, <<>>)

\* Variant of quard_star_final_exit that applies the generic fixups to the
\* tree on the way out.
quard_star_final_exit_fixup ==
    Outcome(<<Call("fdt_fixups", <<arg1>>, <<>>)>>, <<>>)

\* static void quard_star_final_exit(void) {}
quard_star_final_exit == Outcome(<<>>, <<>>)

\* Variant of quard_star_domains_init that drops the collaborator's result.
quard_star_domains_init_masked(address, populated) ==
    Outcome(<<Call("fdt_get_address", <<>>, <<address>>),
              Call("fdt_domains_populate", <<address>>, <<populated>>)>>,
            <<0>>)

\* static int quard_star_domains_init(void); address is what
\* fdt_get_address() returns and populated what fdt_domains_populate(address)
\* returns.
quard_star_domains_init(address, populated) ==
    Outcome(<<Call("fdt_get_address", <<>>, <<address>>),
              Call("fdt_domains_populate", <<address>>, <<populated>>)>>,
            <<populated>>)

\* Variant of quard_star_console_init that falls back to the serial console
\* when semihosting_init() fails.
quard_star_console_init_fallback(semihosting, result, fallback) ==
    IF semihosting # 0
      THEN IF result # 0
             THEN Outcome(<<Call("semihosting_enabled", <<>>, <<semihosting>>),
                            Call("semihosting_init", <<>>, <<result>>),
                            Call("fdt_serial_init", <<>>, <<fallback>>)>>,
                          <<fallback>>)
             ELSE Outcome(<<Call("semihosting_enabled", <<>>, <<semihosting>>),
                            Call("semihosting_init", <<>>, <<result>>)>>,
                          <<result>>)
      ELSE Outcome(<<Call("semihosting_enabled", <<>>, <<semihosting>>),
                     Call("fdt_serial_init", <<>>, <<result>>)>>,
                   <<result>>)

\* static int quard_star_console_init(void); semihosting is what
\* semihosting_enabled() returns and result what the provider that is then
\* called returns (fallback is the result a second provider would give; the
\* handler calls none).
quard_star_console_init(semihosting, result, fallback) ==
    IF semihosting # 0
      THEN Outcome(<<Call("semihosting_enabled", <<>>, <<semihosting>>),
                     Call("semihosting_init", <<>>, <<result>>)>>,
                   <<result>>)
      ELSE Outcome(<<Call("semihosting_enabled", <<>>, <<semihosting>>),
                     Call("fdt_serial_init", <<>>, <<result>>)>>,
                   <<result>>)

\* Variant of platform_ops with the ipi and timer init slots exchanged.
platform_ops_swapped ==
    [early_init   |-> "quard_star_early_init",
     final_init   |-> "quard_star_final_init",
     early_exit   |-> "quard_star_early_exit",
     final_exit   |-> "quard_star_final_exit",
     domains_init |-> "quard_star_domains_init",
     console_init |-> "quard_star_console_init",
     irqchip_init |-> "fdt_irqchip_init",
     irqchip_exit |-> "fdt_irqchip_exit",
     ipi_init     |-> "fdt_timer_init",
     ipi_exit     |-> "fdt_ipi_exit",
     timer_init   |-> "fdt_ipi_init",
     timer_exit   |-> "fdt_timer_exit"]

\* const struct sbi_platform_operations platform_ops
platform_ops ==
    [early_init   |-> "quard_star_early_init",
     final_init   |-> "quard_star_final_init",
     early_exit   |-> "quard_star_early_exit",
     final_exit   |-> "quard_star_final_exit",
     domains_init |-> "quard_star_domains_init",
     console_init |-> "quard_star_console_init",
     irqchip_init |-> "fdt_irqchip_init",
     irqchip_exit |-> "fdt_irqchip_exit",
     ipi_init     |-> "fdt_ipi_init",
     ipi_exit     |-> "fdt_ipi_exit",
     timer_init   |-> "fdt_timer_init",
     timer_exit   |-> "fdt_timer_exit"]

\* Slots of platform_ops that hold a driver entry point directly.
DriverInitSlots == {"irqchip_init", "ipi_init", "timer_init"}

DriverExitSlots == {"irqchip_exit", "ipi_exit", "timer_exit"}

\* The calls of a handler that are fixups of the tree, in order.
IsFixup(c) == c.fn \in {"fdt_cpu_fixup", "fdt_fixups", "fdt_domain_fixup"}

IsResetInit(c) == c.fn = "fdt_reset_init"

\* The boot-protocol layer may call a hook once fw_platform_init has returned
\* on the boot hart.
CanCallHook == pc = "done" /\ n_calls < MaxCalls

\* A hook call: slot is the member of platform_ops called, args what it was
\* given and out what its handler did.
HookCall(slot, args, out) ==
    /\ last_hook' = <<[slot |-> slot, handler |-> platform_ops[slot], args |-> args]>>
    /\ last_calls' = out.calls
    /\ ret' = out.value
    /\ n_calls' = n_calls + 1
    /\ reset_inits' = reset_inits + Len(SelectSeq(out.calls, IsResetInit))
    /\ fixup_log' = fixup_log \o SelectSeq(out.calls, IsFixup)
    /\ cold_early' = cold_early + (IF slot = "early_init" /\ args # <<0>> THEN 1 ELSE 0)
    /\ cold_final' = cold_final + (IF slot = "final_init" /\ args # <<0>> THEN 1 ELSE 0)
    /\ UNCHANGED <<popvars, fwvars, hartvars>>

EarlyInit ==
    /\ CanCallHook
    /\ UNCHANGED orchvars
    /\ \E cold_boot \in CBool :
          HookCall("early_init", <<cold_boot>>, quard_star_early_init(cold_boot))

FinalInit ==
    /\ CanCallHook
    /\ UNCHANGED orchvars
    /\ \E cold_boot \in CBool, scratch_arg1 \in FdtAddrs :
          HookCall("final_init", <<cold_boot>>,
                   quard_star_final_init(cold_boot, scratch_arg1))

EarlyExit ==
    /\ CanCallHook
    /\ UNCHANGED orchvars
    /\ HookCall("early_exit", <<>>, quard_star_early_exit)

FinalExit ==
    /\ CanCallHook
    /\ UNCHANGED orchvars
    /\ HookCall("final_exit", <<>>, quard_star_final_exit)

DomainsInit ==
    /\ CanCallHook
    /\ UNCHANGED orchvars
    /\ \E address \in FdtAddrs, populated \in Results :
          HookCall("domains_init", <<>>, quard_star_domains_init(address, populated))

ConsoleInit ==
    /\ CanCallHook
    /\ UNCHANGED orchvars
    /\ \E semihosting \in CBool, result \in Results, fallback \in Results :
          HookCall("console_init", <<>>,
                   quard_star_console_init(semihosting, result, fallback))

\* .irqchip_init = fdt_irqchip_init, .ipi_init = fdt_ipi_init,
\* .timer_init = fdt_timer_init: the call through the slot is the driver's
\* entry point itself, with the caller's argument.
DriverInit ==
    /\ CanCallHook
    /\ UNCHANGED orchvars
    /\ \E slot \in DriverInitSlots, cold_boot \in CBool, result \in Results :
          HookCall(slot, <<cold_boot>>,
                   Outcome(<<Call(platform_ops[slot], <<cold_boot>>, <<result>>)>>,
                           <<result>>))

\* .irqchip_exit = fdt_irqchip_exit, .ipi_exit = fdt_ipi_exit,
\* .timer_exit = fdt_timer_exit
DriverExit ==
    /\ CanCallHook
    /\ UNCHANGED orchvars
    /\ \E slot \in DriverExitSlots :
          HookCall(slot, <<>>, Outcome(<<Call(platform_ops[slot], <<>>, <<>>)>>, <<>>))

\* Trees the boot is run on when the hooks are exercised: the end-to-end
\* scenario of a model and four cpu nodes, one of them disabled, and a tree
\* without /cpus.
BootTrees ==
    {FullTree(<<XString(3)>>,
              <<EnabledNode(0), DisabledNode(1), EnabledNode(2), EnabledNode(1)>>),
     NoCpusTree(<<XString(3)>>)}

InitBoot ==
    /\ fdt \in BootTrees
    /\ arg1 \in FdtAddrs
    /\ pc = "start"
    /\ cpu_offset = 0
    /\ hart_count = 0
    /\ platform_name = InitialName
    /\ name_stores = 0
    /\ platform_hart_count = InitialHartCount
    /\ generic_hart_index2id = InitialTable
    /\ oob_stores = <<>>
    /\ fw_ret = <<>>
    /\ wfi_count = 0
    /\ last_hook = <<>>
    /\ last_calls = <<>>
    /\ ret = <<>>
    /\ n_calls = 0
    /\ reset_inits = 0
    /\ fixup_log = <<>>
    /\ cold_early = 0
    /\ cold_final = 0
    /\ fw_calls = 0
    /\ first_result = <<>>
    /\ phase_log = <<>>
    /\ cold_hart = 0
    /\ hart_pc = [h \in Harts |-> HartAtBoot]
    /\ hart_log = <<>>

NextBoot ==
    \/ FindRoot
    \/ CopyModel
    \/ FindCpus
    \/ CpuLoop
    \/ SetCountAndReturn
    \/ Halt
    \/ EarlyInit
    \/ FinalInit
    \/ EarlyExit
    \/ FinalExit
    \/ DomainsInit
    \/ ConsoleInit
    \/ DriverInit
    \/ DriverExit

SpecBoot == InitBoot /\ [][NextBoot]_vars

----------------------------------------------------------------------------
(* The boot sequence of one hart: the lifecycle orchestrator that calls    *)
(* the hooks through platform_ops.                                         *)

\* What a call through a slot of platform_ops can do: the arguments it is
\* given and the outcome of the handler found in the slot, for every input
\* of the environment.
HookRuns(slot) ==
    CASE slot = "early_init" ->
           {[args |-> <<c>>, out |-> quard_star_early_init(c)] : c \in CBool}
      [] slot = "final_init" ->
           {[args |-> <<c>>, out |-> quard_star_final_init(c, a)] :
               c \in CBool, a \in FdtAddrs}
      [] slot = "domains_init" ->
           {[args |-> <<>>, out |-> quard_star_domains_init(a, r)] :
               a \in FdtAddrs, r \in Results}
      [] slot = "console_init" ->
           {[args |-> <<>>, out |-> quard_star_console_init(s, r, r)] :
               s \in CBool, r \in Results}
      [] slot \in DriverInitSlots ->
           {[args |-> <<c>>,
             out |-> Outcome(<<Call(platform_ops[slot], <<c>>, <<r>>)>>, <<r>>)] :
               c \in CBool, r \in Results}

\* Variant of PhaseOrder with the timer brought up before the ipi.
PhaseOrderTimerFirst ==
    <<"early_init", "console_init", "irqchip_init", "timer_init", "ipi_init",
      "domains_init", "final_init">>

\* The forward sequence of the init phases.
PhaseOrder ==
    <<"early_init", "console_init", "irqchip_init", "ipi_init", "timer_init",
      "domains_init", "final_init">>

\* Variant of MayRunNextPhase that carries on after a failed phase.
MayRunNextPhaseRegardless == Len(phase_log) < Len(PhaseOrder)

\* The sequence goes on to its next phase while there is one and the phase
\* before it returned success.
MayRunNextPhase ==
    /\ Len(phase_log) < Len(PhaseOrder)
    /\ phase_log # <<>> => phase_log[Len(phase_log)].value = <<0>>

\* The orchestrator calls the hook of the next phase.
RunNextPhase ==
    /\ pc = "done"
    /\ MayRunNextPhase
    /\ LET slot == PhaseOrder[Len(phase_log) + 1]
       IN  \E run \in HookRuns(slot) :
              /\ HookCall(slot, run.args, run.out)
              /\ phase_log' = Append(phase_log, [slot |-> slot, value |-> run.out.value])

NextLifecycle ==
    \/ FindRoot
    \/ CopyModel
    \/ FindCpus
    \/ CpuLoop
    \/ SetCountAndReturn
    \/ Halt
    \/ RunNextPhase

SpecLifecycle == InitBoot /\ [][NextLifecycle]_vars

----------------------------------------------------------------------------
(* Several harts in early_init and final_init at the same time.  A handler *)
(* is run one collaborator call at a time, so that the calls of different  *)
(* harts interleave.                                                       *)

\* The cold_boot argument the boot protocol passes to a hart.
ColdBootFlag(h) == IF h = cold_hart THEN 1 ELSE 0

\* The hart enters quard_star_early_init.
HartEarlyInit ==
    /\ pc = "done"
    /\ \E h \in Harts :
          /\ hart_pc[h].at = "boot"
          /\ hart_pc' = [hart_pc EXCEPT ![h] =
                 [@ EXCEPT !.at = "early_init",
                           !.out = quard_star_early_init(ColdBootFlag(h)),
                           !.idx = 0]]
    /\ UNCHANGED <<cold_hart, hart_log>>
    /\ UNCHANGED <<popvars, hookvars, fwvars, orchvars>>

\* The hart enters quard_star_final_init.
HartFinalInit ==
    /\ pc = "done"
    /\ \E h \in Harts, scratch_arg1 \in FdtAddrs :
          /\ hart_pc[h].at = "early_returned"
          /\ hart_pc' = [hart_pc EXCEPT ![h] =
                 [@ EXCEPT !.at = "final_init",
                           !.out = quard_star_final_init(ColdBootFlag(h), scratch_arg1),
                           !.idx = 0]]
    /\ UNCHANGED <<cold_hart, hart_log>>
    /\ UNCHANGED <<popvars, hookvars, fwvars, orchvars>>

\* The hart makes the next collaborator call of the handler it is in.
HartCall ==
    /\ \E h \in Harts :
          /\ hart_pc[h].at \in {"early_init", "final_init"}
          /\ hart_pc[h].idx < Len(hart_pc[h].out.calls)
          /\ hart_log' = Append(hart_log,
                 [hart |-> h, hook |-> hart_pc[h].at,
                  call |-> hart_pc[h].out.calls[hart_pc[h].idx + 1]])
          /\ hart_pc' = [hart_pc EXCEPT ![h].idx = @ + 1]
    /\ UNCHANGED cold_hart
    /\ UNCHANGED <<popvars, hookvars, fwvars, orchvars>>

\* The hart returns from the handler it is in.
HartReturn ==
    /\ \E h \in Harts :
          /\ hart_pc[h].at \in {"early_init", "final_init"}
          /\ hart_pc[h].idx = Len(hart_pc[h].out.calls)
          /\ hart_pc' = [hart_pc EXCEPT ![h] =
                 [@ EXCEPT !.at = IF hart_pc[h].at = "early_init"
                                    THEN "early_returned" ELSE "final_returned",
                           !.values = Append(@, hart_pc[h].out.value)]]
    /\ UNCHANGED <<cold_hart, hart_log>>
    /\ UNCHANGED <<popvars, hookvars, fwvars, orchvars>>

InitHarts ==
    /\ fdt \in BootTrees
    /\ arg1 = 4096
    /\ pc = "start"
    /\ cpu_offset = 0
    /\ hart_count = 0
    /\ platform_name = InitialName
    /\ name_stores = 0
    /\ platform_hart_count = InitialHartCount
    /\ generic_hart_index2id = InitialTable
    /\ oob_stores = <<>>
    /\ fw_ret = <<>>
    /\ wfi_count = 0
    /\ last_hook = <<>>
    /\ last_calls = <<>>
    /\ ret = <<>>
    /\ n_calls = 0
    /\ reset_inits = 0
    /\ fixup_log = <<>>
    /\ cold_early = 0
    /\ cold_final = 0
    /\ fw_calls = 0
    /\ first_result = <<>>
    /\ phase_log = <<>>
    /\ cold_hart \in Harts
    /\ hart_pc = [h \in Harts |-> HartAtBoot]
    /\ hart_log = <<>>

NextHarts ==
    \/ FindRoot
    \/ CopyModel
    \/ FindCpus
    \/ CpuLoop
    \/ SetCountAndReturn
    \/ Halt
    \/ HartEarlyInit
    \/ HartFinalInit
    \/ HartCall
    \/ HartReturn

SpecHarts == InitHarts /\ [][NextHarts]_vars

----------------------------------------------------------------------------
(* Properties of fw_platform_init, checked under Spec.                      *)

Returned == pc = "done"

\* The cpu nodes that pass all three tests of the loop.
Survives(node) ==
    node.parse_ok /\ node.hartid < SBI_HARTMASK_MAX_BITS /\ node.enabled

Survivors(children) == SelectSeq(children, Survives)

DistinctIds(nodes) ==
    \A i, j \in 1..Len(nodes) : i # j => nodes[i].hartid # nodes[j].hartid

\* C1: when the surviving cpu nodes (enabled, parseable, identifier below
\* SBI_HARTMASK_MAX_BITS) carry pairwise distinct identifiers, a run of
\* fw_platform_init ends with platform.hart_count = N, the number of
\* survivors, and generic_hart_index2id[0..N-1] holding their identifiers
\* in document order.
C1_TableInDocumentOrder ==
    Returned =>
        LET s == Survivors(fdt.cpus)
        IN  DistinctIds(s) =>
              /\ platform_hart_count = Len(s)
              /\ \A i \in 1..Len(s) : generic_hart_index2id[i - 1] = s[i].hartid

\* C1 witness: a finished run over N >= 2 distinct survivors with a rejected
\* node between two of them, whose table is not sorted by identifier.
C1_Witness ==
    /\ Returned
    /\ DistinctIds(Survivors(fdt.cpus))
    /\ Len(Survivors(fdt.cpus)) >= 2
    /\ \E i, j, k \in 1..Len(fdt.cpus) :
          /\ i < j /\ j < k
          /\ Survives(fdt.cpus[i]) /\ ~Survives(fdt.cpus[j]) /\ Survives(fdt.cpus[k])
    /\ generic_hart_index2id[0] > generic_hart_index2id[1]
    /\ platform_hart_count = Len(Survivors(fdt.cpus))

\* C2: on a tree whose root or whose /cpus node cannot be found,
\* fw_platform_init never returns and platform.hart_count keeps the value it
\* had before the call; once in the wfi loop the hart stays in it.
C2_MissingNodeHalts ==
    /\ []((~RootFound(fdt) \/ ~CpusFound(fdt)) =>
            /\ ~Returned
            /\ fw_ret = <<>>
            /\ platform_hart_count = InitialHartCount)
    /\ [][pc = "fail" => pc' = "fail"]_vars

\* C2 witness: the hart has executed wfi in the halt loop on a tree that has
\* a root but no /cpus node.
C2_Witness ==
    /\ pc = "fail"
    /\ wfi_count > 0
    /\ RootFound(fdt)
    /\ ~CpusFound(fdt)
    /\ platform_hart_count = InitialHartCount

\* C3: the running survivor count and platform.hart_count never exceed the
\* capacity of the hart table, and no store lands at an index past its end.
C3_CountWithinCapacity ==
    /\ hart_count <= SBI_HARTMASK_MAX_BITS
    /\ platform_hart_count <= SBI_HARTMASK_MAX_BITS
    /\ oob_stores = <<>>

OutOfRange(node) == node.parse_ok /\ node.hartid >= SBI_HARTMASK_MAX_BITS

NotOutOfRange(node) == ~OutOfRange(node)

\* C4: a cpu node whose identifier is >= SBI_HARTMASK_MAX_BITS is never
\* stored, and the count and the table a run ends with are those of the
\* traversal of the same children with the out-of-range nodes removed.
C4_OutOfRangeIgnored ==
    /\ \A i \in DOMAIN generic_hart_index2id :
          generic_hart_index2id[i] < SBI_HARTMASK_MAX_BITS
    /\ \A k \in 1..Len(oob_stores) : oob_stores[k].value < SBI_HARTMASK_MAX_BITS
    /\ Returned =>
          LET r == RunLoop(LoopState(0, InitialTable, <<>>),
                           SelectSeq(fdt.cpus, NotOutOfRange))
          IN  /\ platform_hart_count = r.count
              /\ generic_hart_index2id = r.table
              /\ oob_stores = r.oob

\* C4 witness: a finished run over a tree with an out-of-range node ahead of
\* a surviving one.
C4_Witness ==
    /\ Returned
    /\ \E i, j \in 1..Len(fdt.cpus) :
          /\ i < j
          /\ OutOfRange(fdt.cpus[i]) /\ fdt.cpus[i].enabled
          /\ Survives(fdt.cpus[j])
    /\ platform_hart_count = Len(Survivors(fdt.cpus))
    /\ platform_hart_count > 0

\* C8 as stated: platform.hart_count is 0 until the population step has
\* completed, and afterwards the number of enabled hart entries found.
C8_ZeroUntilPopulated ==
    /\ ~Returned => platform_hart_count = 0
    /\ Returned => platform_hart_count = Len(Survivors(fdt.cpus))

\* C8 amended: platform.hart_count is SBI_HARTMASK_MAX_BITS, the value of its
\* static initialiser, until the population step has completed, and
\* afterwards the number of enabled cpu nodes with a parseable, in-range
\* identifier.
C8_CapacityUntilPopulated ==
    /\ ~Returned => platform_hart_count = SBI_HARTMASK_MAX_BITS
    /\ Returned => platform_hart_count = Len(Survivors(fdt.cpus))

\* C8 witness: a finished run that rejected a disabled node and whose count
\* differs from the initial value.
C8_Witness ==
    /\ Returned
    /\ \E i \in 1..Len(fdt.cpus) :
          fdt.cpus[i].parse_ok /\ ~fdt.cpus[i].enabled
             /\ fdt.cpus[i].hartid < SBI_HARTMASK_MAX_BITS
    /\ platform_hart_count = Len(Survivors(fdt.cpus))
    /\ platform_hart_count # SBI_HARTMASK_MAX_BITS
    /\ platform_hart_count > 0

\* The C string held in a char array: the bytes before the first NUL.
RECURSIVE CStringFrom(_, _)
CStringFrom(buf, i) ==
    IF i \notin DOMAIN buf \/ buf[i] = 0 THEN <<>>
    ELSE <<buf[i]>> \o CStringFrom(buf, i + 1)

Min(a, b) == IF a <= b THEN a ELSE b

ModelCopied == pc \notin {"start", "model"}

\* C9: at most NAME_SIZE - 1 bytes are stored into platform.name, its last
\* byte is never written and stays NUL, so the name is NUL-terminated inside
\* the buffer; after the copy the name is the model cut to NAME_SIZE - 1
\* characters; without a model property the name is the default, unchanged.
C9_NameTruncatedAndTerminated ==
    /\ name_stores <= NAME_SIZE - 1
    /\ platform_name[NAME_SIZE - 1] = 0
    /\ (ModelCopied /\ fdt.model # <<>>) =>
          /\ name_stores = Min(Len(fdt.model[1]) + 1, NAME_SIZE - 1)
          /\ \A i \in 0..(NAME_SIZE - 1) :
                platform_name[i] =
                    IF i >= name_stores THEN InitialName[i]
                    ELSE IF i < Len(fdt.model[1]) THEN fdt.model[1][i + 1] ELSE 0
    /\ (fdt.model = <<>> \/ ~ModelCopied) =>
          /\ platform_name = InitialName
          /\ name_stores = 0

\* C9 witness: a model property longer than the buffer has been copied and
\* fills the name up to, and not including, its last byte.
C9_Witness ==
    /\ ModelCopied
    /\ fdt.model # <<>>
    /\ Len(fdt.model[1]) > NAME_SIZE
    /\ name_stores = NAME_SIZE - 1
    /\ platform_name[NAME_SIZE - 2] # 0
    /\ platform_name[NAME_SIZE - 1] = 0

\* C12 as stated: a second call on the same tree appends the surviving
\* identifiers after the entries of the first call, so that the count after
\* two calls differs from the count after one.
C12_SecondCallAppends ==
    (Returned /\ fw_calls = 2 /\ Len(Survivors(fdt.cpus)) > 0) =>
        /\ platform_hart_count = first_result[1].count + Len(Survivors(fdt.cpus))
        /\ platform_hart_count # first_result[1].count

\* C12 amended: hart_count is a local that starts at 0 on every call, so a
\* second call on the same tree stores the same identifiers over the entries
\* of the first call, from index 0: the hart count, the hart table and the
\* name after two calls are those after one call.
C12_SecondCallRewrites ==
    (Returned /\ fw_calls >= 2) =>
        /\ platform_hart_count = first_result[1].count
        /\ generic_hart_index2id = first_result[1].table
        /\ platform_name = first_result[1].name
        /\ platform_hart_count = Len(Survivors(fdt.cpus))

\* C12 witness: a second call has returned on a tree with two survivors.
C12_Witness ==
    /\ Returned
    /\ fw_calls = 2
    /\ Len(Survivors(fdt.cpus)) = 2
    /\ platform_hart_count = 2
    /\ generic_hart_index2id[1] # 0

\* C16: after fw_platform_init has returned, every hart-table entry at an
\* index >= platform.hart_count is zero, and every entry below it holds an
\* identifier below SBI_HARTMASK_MAX_BITS that an enabled cpu node of the
\* tree carries.
C16_EntriesBeyondCountZero ==
    Returned =>
        \A i \in DOMAIN generic_hart_index2id :
            IF i >= platform_hart_count
              THEN generic_hart_index2id[i] = 0
              ELSE /\ generic_hart_index2id[i] < SBI_HARTMASK_MAX_BITS
                   /\ \E k \in 1..Len(fdt.cpus) :
                         /\ fdt.cpus[k].parse_ok
                         /\ fdt.cpus[k].enabled
                         /\ fdt.cpus[k].hartid = generic_hart_index2id[i]

\* C16 witness: a run has returned with one entry in use, holding a non-zero
\* identifier, and the rest of the table zero.
C16_Witness ==
    /\ Returned
    /\ platform_hart_count = 1
    /\ generic_hart_index2id[0] # 0
    /\ \A i \in 1..(SBI_HARTMASK_MAX_BITS - 1) : generic_hart_index2id[i] = 0
    /\ Len(fdt.cpus) >= 3

\* C17: on a tree with a root and a /cpus node fw_platform_init never enters
\* the halt loop and does return, whatever its cpu nodes are; when no node
\* survives it returns with platform.hart_count = 0 and the hart table
\* unwritten.
C17_BadNodesAreSkipped ==
    /\ (RootFound(fdt) /\ CpusFound(fdt)) => <>Returned
    /\ []((RootFound(fdt) /\ CpusFound(fdt)) => pc # "fail")
    /\ []((Returned /\ Survivors(fdt.cpus) = <<>>) =>
            /\ platform_hart_count = 0
            /\ generic_hart_index2id = InitialTable
            /\ oob_stores = <<>>)

\* C17 witness: a run over unparseable, out-of-range and disabled nodes only
\* has returned.
C17_Witness ==
    /\ Returned
    /\ Survivors(fdt.cpus) = <<>>
    /\ \E i, j, k \in 1..Len(fdt.cpus) :
          /\ ~fdt.cpus[i].parse_ok
          /\ OutOfRange(fdt.cpus[j])
          /\ fdt.cpus[k].parse_ok /\ ~fdt.cpus[k].enabled /\ ~OutOfRange(fdt.cpus[k])
    /\ platform_hart_count = 0

\* C18: in the halt loop platform.hart_count and the hart table are as they
\* were before the call; platform.name is too when the root is missing or
\* has no model property, but when the root has one and /cpus is missing the
\* name already holds the model, cut to NAME_SIZE - 1 characters.
C18_HaltKeepsAllButTheName ==
    pc = "fail" =>
        /\ platform_hart_count = InitialHartCount
        /\ generic_hart_index2id = InitialTable
        /\ oob_stores = <<>>
        /\ hart_count = 0
        /\ IF RootFound(fdt) /\ fdt.model # <<>>
             THEN LET n == Min(Len(fdt.model[1]), NAME_SIZE - 1)
                  IN  /\ \A i \in 0..(n - 1) : platform_name[i] = fdt.model[1][i + 1]
                      /\ platform_name[n] = 0
                      /\ platform_name # InitialName
             ELSE platform_name = InitialName

\* C18 witness: the hart is in the halt loop for want of /cpus, with the name
\* overwritten by a model longer than the buffer.
C18_Witness ==
    /\ pc = "fail"
    /\ wfi_count > 0
    /\ RootFound(fdt)
    /\ fdt.model # <<>>
    /\ Len(fdt.model[1]) > NAME_SIZE
    /\ platform_name[NAME_SIZE - 2] = fdt.model[1][NAME_SIZE - 1]
    /\ platform_name # InitialName
    /\ platform_hart_count = InitialHartCount

\* C19: identifiers are not deduplicated: every surviving node gets an entry
\* of its own, so the count a run ends with is the number of surviving nodes
\* and the n-th survivor's identifier is at logical index n - 1 (in the table
\* while it has room, past its end afterwards), also when an earlier
\* survivor carried the same identifier.
C19_NoDeduplication ==
    Returned =>
        LET s == Survivors(fdt.cpus)
        IN  /\ platform_hart_count = Len(s)
            /\ \A n \in 1..Len(s) :
                  IF n - 1 \in DOMAIN generic_hart_index2id
                    THEN generic_hart_index2id[n - 1] = s[n].hartid
                    ELSE oob_stores[n - SBI_HARTMASK_MAX_BITS] =
                            [index |-> n - 1, value |-> s[n].hartid]
            /\ Len(oob_stores) =
                  IF Len(s) > SBI_HARTMASK_MAX_BITS
                    THEN Len(s) - SBI_HARTMASK_MAX_BITS ELSE 0

\* C19 witness: a run has returned with the same non-zero identifier at
\* logical indices 0 and 1, and fewer distinct identifiers than entries.
C19_Witness ==
    /\ Returned
    /\ platform_hart_count = 2
    /\ generic_hart_index2id[0] # 0
    /\ generic_hart_index2id[0] = generic_hart_index2id[1]
    /\ Cardinality({generic_hart_index2id[i] : i \in 0..(platform_hart_count - 1)})
          < platform_hart_count

----------------------------------------------------------------------------
(* Properties of the lifecycle hooks, checked under SpecBoot.               *)

\* The most recent hook call was made through this slot of platform_ops.
LastHookIs(slot) == last_hook # <<>> /\ last_hook[1].slot = slot

FunctionsCalled == [i \in 1..Len(last_calls) |-> last_calls[i].fn]

\* How often a fixup has been applied to the tree over the boot.
FixupCount(fn) == Cardinality({i \in 1..Len(fixup_log) : fixup_log[i].fn = fn})

\* C5: final_init with the flag true re-acquires the tree handle from the
\* scratch area and calls fdt_cpu_fixup, fdt_fixups and fdt_domain_fixup on
\* it, once each and in that order, and returns 0; with the flag false it
\* calls nothing and returns 0.
C5_FinalInitRunsFixupsInOrder ==
    LastHookIs("final_init") =>
        /\ ret = <<0>>
        /\ IF last_hook[1].args = <<0>>
             THEN last_calls = <<>>
             ELSE /\ FunctionsCalled = <<"sbi_scratch_thishart_arg1_ptr",
                                         "fdt_cpu_fixup", "fdt_fixups",
                                         "fdt_domain_fixup">>
                  /\ \A i \in 2..4 : /\ last_calls[i].args = last_calls[1].res
                                     /\ last_calls[i].res = <<>>

\* C5 witness: final_init has run on the designated unit and the tree has
\* received the three fixups.
C5_Witness ==
    /\ LastHookIs("final_init")
    /\ last_hook[1].args = <<1>>
    /\ Len(last_calls) = 4
    /\ Len(fixup_log) = 3

\* C6 as stated: over any sequence of early_init and final_init calls the
\* reset registration and each fixup are performed at most once in total.
C6_AtMostOncePerBoot ==
    /\ reset_inits <= 1
    /\ FixupCount("fdt_cpu_fixup") <= 1
    /\ FixupCount("fdt_fixups") <= 1
    /\ FixupCount("fdt_domain_fixup") <= 1

\* C6 amended: a call of early_init or final_init with the flag false calls
\* nothing and returns 0; the hooks keep no record of earlier calls, so the
\* reset registration has been performed once per early_init call with the
\* flag true and each fixup once per final_init call with the flag true.
C6_OncePerColdCall ==
    /\ reset_inits = cold_early
    /\ FixupCount("fdt_cpu_fixup") = cold_final
    /\ FixupCount("fdt_fixups") = cold_final
    /\ FixupCount("fdt_domain_fixup") = cold_final
    /\ Len(fixup_log) = 3 * cold_final
    /\ ((LastHookIs("early_init") \/ LastHookIs("final_init"))
            /\ last_hook[1].args = <<0>>) =>
          (last_calls = <<>> /\ ret = <<0>>)

\* C6 witness: a call with the flag false has just returned after an earlier
\* call had performed the registration.
C6_Witness ==
    /\ LastHookIs("early_init")
    /\ last_hook[1].args = <<0>>
    /\ last_calls = <<>>
    /\ reset_inits = 1
    /\ cold_early = 1
    /\ n_calls >= 2

Providers == {"semihosting_init", "fdt_serial_init"}

\* C7: console_init asks semihosting_enabled() and then calls exactly one
\* provider, semihosting_init() if and only if the answer was true and
\* fdt_serial_init() otherwise, and returns that provider's result, whether
\* or not it failed.
C7_ConsoleOneProvider ==
    LastHookIs("console_init") =>
        /\ Len(last_calls) = 2
        /\ last_calls[1].fn = "semihosting_enabled"
        /\ last_calls[2].fn = IF last_calls[1].res # <<0>>
                                THEN "semihosting_init" ELSE "fdt_serial_init"
        /\ Cardinality({i \in 1..Len(last_calls) : last_calls[i].fn \in Providers}) = 1
        /\ ret = last_calls[2].res

\* C7 witness: semihosting is advertised, semihosting_init() failed, and the
\* failure was returned without the serial console being tried.
C7_Witness ==
    /\ LastHookIs("console_init")
    /\ last_calls[1].res = <<1>>
    /\ last_calls[2].fn = "semihosting_init"
    /\ ret = <<-1>>
    /\ \A i \in 1..Len(last_calls) : last_calls[i].fn # "fdt_serial_init"

\* The driver entry point each slot is meant to reach.
DriverOf(slot) ==
    CASE slot = "irqchip_init" -> "fdt_irqchip_init"
      [] slot = "irqchip_exit" -> "fdt_irqchip_exit"
      [] slot = "ipi_init" -> "fdt_ipi_init"
      [] slot = "ipi_exit" -> "fdt_ipi_exit"
      [] slot = "timer_init" -> "fdt_timer_init"
      [] slot = "timer_exit" -> "fdt_timer_exit"

\* C10: domains_init returns the value fdt_domains_populate() returned for
\* the address fdt_get_address() gave; a call through the irqchip, ipi or
\* timer slot is one call of that driver's entry point with the caller's
\* arguments, whose result is what the caller gets.
C10_ResultsPropagated ==
    /\ LastHookIs("domains_init") =>
          /\ FunctionsCalled = <<"fdt_get_address", "fdt_domains_populate">>
          /\ last_calls[2].args = last_calls[1].res
          /\ ret = last_calls[2].res
    /\ \A slot \in DriverInitSlots \cup DriverExitSlots :
          LastHookIs(slot) =>
             /\ last_hook[1].handler = DriverOf(slot)
             /\ FunctionsCalled = <<DriverOf(slot)>>
             /\ last_calls[1].args = last_hook[1].args
             /\ ret = last_calls[1].res

\* C10 witness: fdt_domains_populate() failed and domains_init returned its
\* error code.
C10_Witness ==
    /\ LastHookIs("domains_init")
    /\ Len(last_calls) = 2
    /\ last_calls[2].res = <<-3>>
    /\ ret = <<-3>>

\* A step that is a call through one of these slots of platform_ops.
CallsHook(slots) ==
    /\ n_calls' = n_calls + 1
    /\ last_hook'[1].slot \in slots

\* C11: a call of early_exit or final_exit, in whatever state and however
\* often, makes no collaborator call, returns nothing, and leaves the
\* descriptor, the hart table and the tree as they were.
C11_ExitHooksAreNoOps ==
    [][CallsHook({"early_exit", "final_exit"}) =>
          /\ last_calls' = <<>>
          /\ ret' = <<>>
          /\ UNCHANGED <<platform_name, platform_hart_count, generic_hart_index2id,
                         oob_stores, fdt, fixup_log, reset_inits>>]_vars

\* C11 witness: final_exit has been called as the first hook of the boot,
\* with no init hook before it.
C11_Witness ==
    /\ LastHookIs("final_exit")
    /\ n_calls = 1
    /\ last_calls = <<>>
    /\ fixup_log = <<>>

TheThreeFixups == <<"fdt_cpu_fixup", "fdt_fixups", "fdt_domain_fixup">>

\* C15: once fw_platform_init has returned, platform.name,
\* platform.hart_count and the hart table never change again, whichever
\* hooks are called; the tree is written by nothing but the three fixups of
\* a final_init call with the flag true; fw_platform_init does not write the
\* tree and returns arg1.
C15_SingleWriter ==
    /\ [][Returned =>
            UNCHANGED <<platform_name, platform_hart_count,
                        generic_hart_index2id, oob_stores>>]_vars
    /\ [][fixup_log' # fixup_log =>
            /\ CallsHook({"final_init"})
            /\ last_hook'[1].args = <<1>>
            /\ Len(fixup_log') = Len(fixup_log) + 3
            /\ \A i \in 1..3 : fixup_log'[Len(fixup_log) + i].fn = TheThreeFixups[i]]_vars
    /\ [][(pc # "done" \/ pc' # "done") =>
            (fdt' = fdt /\ fixup_log' = fixup_log /\ n_calls' = n_calls)]_vars
    /\ [](Returned => fw_ret = <<arg1>>)
    /\ [](~Returned => fw_ret = <<>>)

\* C15 witness: fw_platform_init has returned the second of the addresses,
\* final_init has then run the fixups, and the descriptor holds what the
\* population left.
C15_Witness ==
    /\ Returned
    /\ fw_ret = <<arg1>>
    /\ \A a \in FdtAddrs : a <= arg1
    /\ LastHookIs("final_init")
    /\ Len(fixup_log) = 3
    /\ n_calls = 3
    /\ platform_hart_count = Len(Survivors(fdt.cpus))

FunctionSet == {last_calls[i].fn : i \in 1..Len(last_calls)}

\* C20: early_init and final_init return 0 on every call, for either value
\* of the flag; the handlers read no result of fdt_reset_init or of the
\* fixups, so with the flag true early_init has made the registration and
\* final_init has gone through all three fixups, none skipped, before
\* returning 0.
C20_InitHooksReturnZero ==
    /\ LastHookIs("early_init") =>
          /\ ret = <<0>>
          /\ last_hook[1].args # <<0>> => FunctionSet = {"fdt_reset_init"}
          /\ \A i \in 1..Len(last_calls) : last_calls[i].res = <<>>
    /\ LastHookIs("final_init") =>
          /\ ret = <<0>>
          /\ last_hook[1].args # <<0>> =>
                {"fdt_cpu_fixup", "fdt_fixups", "fdt_domain_fixup"} \subseteq FunctionSet
          /\ \A i \in 1..Len(last_calls) :
                IsFixup(last_calls[i]) => last_calls[i].res = <<>>

\* C20 witness: final_init with the flag true has returned 0 after an
\* early_init with the flag true had made the registration.
C20_Witness ==
    /\ LastHookIs("final_init")
    /\ last_hook[1].args = <<1>>
    /\ ret = <<0>>
    /\ reset_inits = 1
    /\ cold_early = 1
    /\ FixupCount("fdt_domain_fixup") = 1

----------------------------------------------------------------------------
(* Properties of the boot sequence, checked under SpecLifecycle.            *)

\* C13: the init hooks are called in the order early_init, console_init,
\* irqchip_init, ipi_init, timer_init, domains_init, final_init, each at most
\* once and none after a later one, and no hook is called after one that
\* returned a value other than 0.
C13_PhasesInOrderUntilFailure ==
    /\ Len(phase_log) <= 7
    /\ \A i \in 1..Len(phase_log) :
          phase_log[i].slot =
             CASE i = 1 -> "early_init"
               [] i = 2 -> "console_init"
               [] i = 3 -> "irqchip_init"
               [] i = 4 -> "ipi_init"
               [] i = 5 -> "timer_init"
               [] i = 6 -> "domains_init"
               [] i = 7 -> "final_init"
    /\ \A i \in 1..(Len(phase_log) - 1) : phase_log[i].value = <<0>>
    /\ phase_log # <<>> =>
          /\ LastHookIs(phase_log[Len(phase_log)].slot)
          /\ ret = phase_log[Len(phase_log)].value
    /\ n_calls = Len(phase_log)

\* C13 witness: the sequence has stopped at irqchip_init, which failed after
\* early_init and console_init had succeeded.
C13_Witness ==
    /\ Len(phase_log) = 3
    /\ phase_log[3].slot = "irqchip_init"
    /\ phase_log[3].value = <<-1>>
    /\ ~MayRunNextPhase

----------------------------------------------------------------------------
(* Properties of concurrent harts, checked under SpecHarts.                 *)

HartLogFunctions == [i \in 1..Len(hart_log) |-> hart_log[i].call.fn]

ColdCallSequence ==
    <<"fdt_reset_init", "sbi_scratch_thishart_arg1_ptr", "fdt_cpu_fixup",
      "fdt_fixups", "fdt_domain_fixup">>

AllHartsThrough == \A h \in Harts : hart_pc[h].at = "final_returned"

\* C14: with one hart passed cold_boot = true and the others false, in every
\* interleaving the collaborator calls are all made by the designated hart,
\* the reset registration and the three fixups at most once each and in the
\* order registration, hart-topology, generic, domain-topology, and exactly
\* once each when every hart is through; the other harts call nothing; every
\* call returns 0.
C14_OnlyDesignatedHartActs ==
    /\ \A i \in 1..Len(hart_log) : hart_log[i].hart = cold_hart
    /\ Len(hart_log) <= Len(ColdCallSequence)
    /\ HartLogFunctions = SubSeq(ColdCallSequence, 1, Len(hart_log))
    /\ \A i \in 1..Len(hart_log) :
          hart_log[i].call.fn \in {"fdt_cpu_fixup", "fdt_fixups", "fdt_domain_fixup"}
             => hart_log[i].call.args = hart_log[2].call.res
    /\ \A h \in Harts :
          /\ \A i \in 1..Len(hart_pc[h].values) : hart_pc[h].values[i] = <<0>>
          /\ h # cold_hart => hart_pc[h].out.calls = <<>>
    /\ AllHartsThrough => HartLogFunctions = ColdCallSequence

\* C14 witness: every hart is through both hooks, the designated hart, which
\* made all five calls, being another one than hart 0.
C14_Witness ==
    /\ AllHartsThrough
    /\ Len(hart_log) = 5
    /\ cold_hart # 0
    /\ \A h \in Harts : Len(hart_pc[h].values) = 2

====
